---- MODULE Spec2Model ----
(***************************************************************************)
(* Model of examples/lotka.py (fcmaes): the fitness function of the        *)
(* Lotka-Volterra fox-killing example, called by the parallel optimizers   *)
(* from several worker processes that share the two RawValue cells bval    *)
(* and evals.                                                              *)
(*                                                                         *)
(* Numbers.  Times are whole ticks, Year ticks to the year, so that the    *)
(* half-year offsets of X and the np.linspace step are both whole.         *)
(* Populations are whole animals.  1E99 is the number Threshold, larger    *)
(* than every value the model computes.                                    *)
(*                                                                         *)
(* The integrator (scipy.integrate.ode, dopri5) is outside the repository: *)
(* a call of integrate returns any state of cfg.popRange and, when         *)
(* cfg.mayFail, may have failed to converge; scipy reports that by a       *)
(* warning, which integrate() suppresses, and a cleared success flag,      *)
(* which fitness never reads.  When cfg.det the integrator is a            *)
(* deterministic function of the seeded state and the duration (the vector *)
(* field lotkavolterra does not read t); the function is chosen lazily and *)
(* kept in memo.                                                           *)
(***************************************************************************)
EXTENDS Integers, Sequences, FiniteSets, TLC

\* ---- bounds of the model
Dim == 2            \* len(X); the example runs with dim = 20
MaxCalls == 2       \* fitness calls the drivers start in one run

\* ---- program constants
NSamples == 50      \* np.linspace(t1, t1 + 5, 50)
Window == 5         \* np.linspace(t1, t1 + 5, 50)
Threshold == 999999 \* 1E99
IntMax == 2147483647 \* largest ct.c_int
ScenarioDim == 20   \* dim = 20 # years

Year == 2 * (NSamples - 1)
SampleStep == (Window * Year) \div (NSamples - 1)

Workers == {1, 2}

\* bounds = Bounds([-1]*dim, [1]*dim): the entries the model draws from it
XVals == {-(Year \div 2), 0, Year \div 2, Year}
Vectors == [1..Dim -> XVals]

Rabbits == {1, 2, 3}
Foxes == {0, 1, 3}
PopStates == {<<r, f>> : r \in Rabbits, f \in Foxes}

Max(a, b) == IF a >= b THEN a ELSE b

RECURSIVE SetMin(_)
SetMin(S) ==
    LET x == CHOOSE e \in S : TRUE
    IN  IF S = {x} THEN x
        ELSE LET m == SetMin(S \ {x}) IN IF x < m THEN x ELSE m

VARIABLES
    bval,        \* mp.RawValue(ct.c_double, 1E99), shared
    evals,       \* mp.RawValue(ct.c_int, 0), shared
    pop0,        \* the module-level list pop0 of each worker process
    pc,          \* each worker's position in fitness
    X,           \* argument of the running call
    ts,          \* the schedule under construction
    year,        \* loop index of "for year, x in enumerate(X)"
    pop,         \* what the local name pop refers to: "pop0" or "I._y"
    I,           \* the call's integrator: [y, t]
    i,           \* loop index of "for i in range(len(ts))"
    j,           \* samples of np.linspace taken so far
    max_rabbits,
    value,
    tmp,         \* evals.value as read by "evals.value += 1"
    log,         \* records written by logger().info
    memo,        \* answers the deterministic integrator has given
    cfg,         \* what the run draws its inputs from
    started,     \* calls started
    done,        \* calls returned
    returned,    \* the values the returned calls returned
    answers,     \* <<X, value>> of the returned calls, kept when cfg.det
    failed,      \* an integrate call of the running call did not converge
    nkill,       \* transitions applied by the running call
    prefox,      \* fox population just before the transition just applied
    prerabbits,  \* rabbit population just before the transition just applied
    seen,        \* rabbit populations the samples of the running call showed
    entry        \* bval, evals and the number of records when the call began

vars == <<bval, evals, pop0, pc, X, ts, year, pop, I, i, j, max_rabbits,
          value, tmp, log, memo, cfg, started, done, returned, answers,
          failed, nkill, prefox, prerabbits, seen, entry>>

shared == <<bval, evals>>
locals == <<X, ts, year, pop, I, i, j, max_rabbits, value, tmp>>
ghosts == <<started, done, returned, answers, failed, nkill, prefox, prerabbits,
           seen, entry>>

NoI == [y |-> <<0, 0>>, t |-> 0]
NoFox == -1
NoEntry == [bval |-> 0, evals |-> 0, records |-> 0]

\* ---- pure parts of fitness

\* evals.value += 1 on a ct.c_int: the store wraps at 32 bits
Inc32(v) == IF v = IntMax THEN (-IntMax) - 1 ELSE v + 1

\* the fox is killed without keeping one
KillNoFloor(f) == f - 1

\* two foxes are kept
KillKeepsTwo(f) == Max(2, f - 1)

\* line 67: pop[1] = max(1, pop[1]-1)
Kill(f) == Max(1, f - 1)

\* the window is cut into 50 steps, so that its end t1 + 5 is not sampled
LinspaceNoEndpoint(t1, n) == t1 * Year + (n * Window * Year) \div NSamples

\* the j-th element (from 0) of np.linspace(t1, t1 + 5, 50)
Linspace(t1, n) == t1 * Year + n * SampleStep

\* the list the local name pop refers to
Deref(w) == IF pop[w] = "pop0" THEN pop0[w] ELSE I[w].y

\* what I.integrate(t) may answer
Outcomes(w, t) ==
    LET key == <<I[w].y, t - I[w].t>>
        known == {m \in memo : m[1] = key}
    IN  IF cfg.det /\ known # {}
        THEN {m[2] : m \in known}
        ELSE {[y |-> p, ok |-> o] : p \in cfg.popRange,
                                    o \in (IF cfg.mayFail THEN BOOLEAN ELSE {TRUE})}

Remember(w, t, out) ==
    IF cfg.det THEN memo \cup {<<(<<I[w].y, t - I[w].t>>), out>>} ELSE memo

\* ---- the state after the module is loaded and the drivers have forked

TypeOK ==
    /\ bval \in Int /\ evals \in Int
    /\ pc \in [Workers -> {"idle", "decode", "seed", "prop", "score", "inc_read",
                           "inc_write", "compare", "store", "log", "ret"}]
    /\ \A w \in Workers : ts[w] \in Seq(Int) /\ pop[w] \in {"pop0", "I._y"}

InitWith(c) ==
    /\ cfg = c
    /\ bval = Threshold
    /\ evals = c.evals0
    /\ pop0 = [w \in Workers |-> <<10, 5>>]
    /\ pc = [w \in Workers |-> "idle"]
    /\ X = [w \in Workers |-> <<>>]
    /\ ts = [w \in Workers |-> <<>>]
    /\ year = [w \in Workers |-> 0]
    /\ pop = [w \in Workers |-> "pop0"]
    /\ I = [w \in Workers |-> NoI]
    /\ i = [w \in Workers |-> 0]
    /\ j = [w \in Workers |-> 0]
    /\ max_rabbits = [w \in Workers |-> 0]
    /\ value = [w \in Workers |-> 0]
    /\ tmp = [w \in Workers |-> 0]
    /\ log = <<>>
    /\ memo = {}
    /\ started = 0
    /\ done = 0
    /\ returned = {}
    /\ answers = {}
    /\ failed = [w \in Workers |-> FALSE]
    /\ nkill = [w \in Workers |-> 0]
    /\ prefox = [w \in Workers |-> NoFox]
    /\ prerabbits = [w \in Workers |-> NoFox]
    /\ seen = [w \in Workers |-> {}]
    /\ entry = [w \in Workers |-> NoEntry]

\* one process; every vector of the bounds; an integrator that answers <<2, 3>>
DecodeCfg == [workers |-> {1}, inputs |-> Vectors, popRange |-> {<<2, 3>>},
              mayFail |-> FALSE, det |-> FALSE, evals0 |-> 0]

\* one process; three vectors; every answer of the integrator, failures included
SimInputs == {[k \in 1..Dim |-> -(Year \div 2)],
              [k \in 1..Dim |-> Year \div 2],
              [k \in 1..Dim |-> IF k = Dim THEN Year ELSE 0]}
SimCfg == [workers |-> {1}, inputs |-> SimInputs, popRange |-> PopStates,
           mayFail |-> TRUE, det |-> FALSE, evals0 |-> 0]

\* every process; one vector; an integrator whose answers differ in the rabbits
ConcCfg == [workers |-> Workers, inputs |-> {[k \in 1..Dim |-> -(Year \div 2)]},
            popRange |-> {<<1, 3>>, <<2, 3>>},
            mayFail |-> FALSE, det |-> FALSE, evals0 |-> 0]

\* one process; a deterministic integrator
DetCfg == [workers |-> {1}, inputs |-> SimInputs, popRange |-> {<<1, 3>>, <<2, 1>>},
           mayFail |-> FALSE, det |-> TRUE, evals0 |-> 0]

InitDecode == InitWith(DecodeCfg)
InitSim == InitWith(SimCfg)
InitConc == InitWith(ConcCfg)
InitDet == InitWith(DetCfg)

\* one process; the two demonstration vectors of __main__, [-0.5]*dim and
\* [0.5]*dim with dim = 20; every answer of the integrator
ScenarioA == [k \in 1..ScenarioDim |-> -(Year \div 2)]
ScenarioB == [k \in 1..ScenarioDim |-> Year \div 2]
ScenarioCfg == [workers |-> {1}, inputs |-> {ScenarioA, ScenarioB},
                popRange |-> PopStates,
                mayFail |-> FALSE, det |-> FALSE, evals0 |-> 0]
InitScenario == InitWith(ScenarioCfg)

\* one process, late in a long run: the counter has reached 2^31 - 2
WrapCfg == [workers |-> {1}, inputs |-> SimInputs, popRange |-> {<<1, 3>>, <<2, 1>>},
            mayFail |-> FALSE, det |-> FALSE, evals0 |-> IntMax - 1]
InitWrap == InitWith(WrapCfg)

\* every process; one vector; an integrator that answers <<2, 3>>
FairCfg == [workers |-> Workers, inputs |-> {[k \in 1..Dim |-> Year \div 2]},
            popRange |-> {<<2, 3>>},
            mayFail |-> FALSE, det |-> FALSE, evals0 |-> 0]
InitFair == InitWith(FairCfg)

\* ---- fitness, one action per step of a worker

\* lines 51-55: def fitness(X): t0 = 0; t1 = len(X); pop = pop0; ts = []
Call(w, x) ==
    /\ pc[w] = "idle"
    /\ w \in cfg.workers
    /\ x \in cfg.inputs
    /\ started < MaxCalls
    /\ started' = started + 1
    /\ X' = [X EXCEPT ![w] = x]
    /\ pop' = [pop EXCEPT ![w] = "pop0"]
    /\ ts' = [ts EXCEPT ![w] = <<>>]
    /\ year' = [year EXCEPT ![w] = 0]
    /\ pc' = [pc EXCEPT ![w] = "decode"]
    /\ entry' = [entry EXCEPT ![w] = [bval |-> bval, evals |-> evals,
                                      records |-> Len(log)]]
    /\ UNCHANGED <<shared, pop0, I, i, j, max_rabbits, value, tmp, log, memo, cfg,
                   done, returned, answers, failed, nkill, prefox, prerabbits, seen>>

\* a year with x = 0 kills a fox too
EmitsAtZero(x) == x >= 0

\* line 57: if x > 0
Emits(x) == x > 0

\* lines 56-58: one iteration of "for year, x in enumerate(X)"
DecodeYear(w) ==
    /\ pc[w] = "decode"
    /\ year[w] < Len(X[w])
    /\ LET x == X[w][year[w] + 1]
       IN  ts' = [ts EXCEPT ![w] = IF Emits(x) THEN Append(@, 0 + year[w] * Year + x)
                                   ELSE @]
    /\ year' = [year EXCEPT ![w] = @ + 1]
    /\ UNCHANGED <<shared, pop0, pc, X, pop, I, i, j, max_rabbits, value, tmp, log,
                   memo, cfg, ghosts>>

\* lines 59-61: ts.append(t1); I = integrator(); I.set_initial_value(pop, t0)
Seed(w) ==
    /\ pc[w] = "decode"
    /\ year[w] = Len(X[w])
    /\ ts' = [ts EXCEPT ![w] = Append(@, Len(X[w]) * Year)]
    /\ I' = [I EXCEPT ![w] = [y |-> Deref(w), t |-> 0]]
    /\ i' = [i EXCEPT ![w] = 0]
    /\ pc' = [pc EXCEPT ![w] = "prop"]
    /\ UNCHANGED <<shared, pop0, X, year, pop, j, max_rabbits, value, tmp, log, memo,
                   cfg, ghosts>>

\* line 71: max_rabbits = 0
MaxRabbits0(w) == 0

\* the answer is copied into the list pop refers to (pop[:] = integrate(...))
IntegratedInPlace(w) == pop[w]

\* line 64, pop = integrate(I, ts[i]): the name pop is rebound to the array the
\* integrator returns, its own _y
Integrated(w) == "I._y"

\* the last entry of the schedule gets a transition too
KillsAtEveryEntry(w) == i[w] <= Len(ts[w]) - 1

\* line 65: if i < len(ts)-1
Kills(w) == i[w] < Len(ts[w]) - 1

\* lines 62-68: one iteration of "for i in range(len(ts))"; after the last one,
\* line 71
Propagate(w) ==
    /\ pc[w] = "prop"
    /\ i[w] < Len(ts[w])
    /\ LET t == ts[w][i[w] + 1]
           kill == Kills(w)
       IN  \E out \in Outcomes(w, t) :
             /\ memo' = Remember(w, t, out)
             /\ failed' = [failed EXCEPT ![w] = @ \/ ~out.ok]
             /\ LET after == IF kill THEN <<out.y[1], Kill(out.y[2])>> ELSE out.y
                IN  \* line 67 writes the list pop refers to; line 68 seeds I with it
                    /\ pop' = [pop EXCEPT ![w] = Integrated(w)]
                    /\ pop0' = IF Integrated(w) = "pop0"
                                THEN [pop0 EXCEPT ![w] = after] ELSE pop0
                    /\ I' = [I EXCEPT ![w] = [y |-> after, t |-> t]]
             /\ nkill' = [nkill EXCEPT ![w] = IF kill THEN @ + 1 ELSE @]
             \* the state before the transition is kept until the loop is left
             /\ prefox' = [prefox EXCEPT ![w] = IF kill THEN out.y[2] ELSE NoFox]
             /\ prerabbits' = [prerabbits EXCEPT ![w] = IF kill THEN out.y[1] ELSE NoFox]
    /\ i' = [i EXCEPT ![w] = @ + 1]
    /\ IF i[w] + 1 = Len(ts[w])
       THEN /\ pc' = [pc EXCEPT ![w] = "score"]
            /\ max_rabbits' = [max_rabbits EXCEPT ![w] = MaxRabbits0(w)]
            /\ j' = [j EXCEPT ![w] = 0]
       ELSE UNCHANGED <<pc, max_rabbits, j>>
    /\ UNCHANGED <<shared, X, ts, year, value, tmp, log, cfg, started, done,
                   returned, answers, seen, entry>>

\* the maximum is returned as it is
ValueNotNegated(m) == m

\* line 75: value = -max_rabbits
Value(m) == -m

\* lines 72-74: one iteration of "for t in np.linspace(t1, t1 + 5, 50)"; after the
\* last one, line 75
Sample(w) ==
    /\ pc[w] = "score"
    /\ j[w] < NSamples
    /\ LET t == Linspace(Len(X[w]), j[w])
       IN  \E out \in Outcomes(w, t) :
             /\ memo' = Remember(w, t, out)
             /\ failed' = [failed EXCEPT ![w] = @ \/ ~out.ok]
             \* line 73: pop = integrate(I, t)
             /\ pop' = [pop EXCEPT ![w] = Integrated(w)]
             /\ pop0' = IF Integrated(w) = "pop0"
                         THEN [pop0 EXCEPT ![w] = out.y] ELSE pop0
             /\ I' = [I EXCEPT ![w] = [y |-> out.y, t |-> t]]
             /\ max_rabbits' = [max_rabbits EXCEPT ![w] = Max(@, out.y[1])]
             /\ seen' = [seen EXCEPT ![w] = @ \cup {out.y[1]}]
             /\ IF j[w] + 1 = NSamples
                THEN /\ value' = [value EXCEPT ![w] = Value(Max(max_rabbits[w], out.y[1]))]
                     /\ pc' = [pc EXCEPT ![w] = "inc_read"]
                ELSE UNCHANGED <<value, pc>>
    /\ j' = [j EXCEPT ![w] = @ + 1]
    /\ UNCHANGED <<shared, X, ts, year, i, tmp, log, cfg, started, done,
                   returned, answers, nkill, prefox, prerabbits, entry>>

\* the load waits until no other worker is between its load and its store
IncReadExclusive(w) ==
    /\ pc[w] = "inc_read"
    /\ \A v \in Workers \ {w} : pc[v] # "inc_write"
    /\ tmp' = [tmp EXCEPT ![w] = evals]
    /\ pc' = [pc EXCEPT ![w] = "inc_write"]
    /\ UNCHANGED <<shared, pop0, X, ts, year, pop, I, i, j, max_rabbits, value, log,
                   memo, cfg, ghosts>>

\* line 77, evals.value += 1: the load
IncRead(w) ==
    /\ pc[w] = "inc_read"
    /\ tmp' = [tmp EXCEPT ![w] = evals]
    /\ pc' = [pc EXCEPT ![w] = "inc_write"]
    /\ UNCHANGED <<shared, pop0, X, ts, year, pop, I, i, j, max_rabbits, value, log,
                   memo, cfg, ghosts>>

\* line 77, evals.value += 1: the store
IncWrite(w) ==
    /\ pc[w] = "inc_write"
    /\ evals' = Inc32(tmp[w])
    /\ pc' = [pc EXCEPT ![w] = "compare"]
    /\ UNCHANGED <<bval, pop0, X, ts, year, pop, I, i, j, max_rabbits, value, tmp, log,
                   memo, cfg, ghosts>>

\* a value equal to the best one counts as an improvement
ImprovesOrTies(v, b) == v <= b /\ v < Threshold

\* line 78: value < bval.value and value < 1E99
Improves(v, b) == v < b /\ v < Threshold

\* line 78: if value < bval.value and value < 1E99
Compare(w) ==
    /\ pc[w] = "compare"
    /\ pc' = [pc EXCEPT ![w] = IF Improves(value[w], bval) THEN "store" ELSE "ret"]
    /\ UNCHANGED <<shared, pop0, locals, log, memo, cfg, ghosts>>

\* line 79: bval.value = value
Store(w) ==
    /\ pc[w] = "store"
    /\ bval' = value[w]
    /\ pc' = [pc EXCEPT ![w] = "log"]
    /\ UNCHANGED <<evals, pop0, locals, log, memo, cfg, ghosts>>

\* lines 80-81: logger().info(... evals.value, dtime(time0), value, ts[:-1], X);
\* of the record, the count and the value are kept, with bval at that moment and
\* the count this call's own increment stored
Log(w) ==
    /\ pc[w] = "log"
    /\ log' = Append(log, [w |-> w, nfev |-> evals, fval |-> value[w], best |-> bval,
                           own |-> Inc32(tmp[w])])
    /\ pc' = [pc EXCEPT ![w] = "ret"]
    /\ UNCHANGED <<shared, pop0, locals, memo, cfg, ghosts>>

\* line 82: return value
Return(w) ==
    /\ pc[w] = "ret"
    /\ pc' = [pc EXCEPT ![w] = "idle"]
    /\ done' = done + 1
    /\ returned' = returned \cup {value[w]}
    /\ answers' = IF cfg.det THEN answers \cup {<<X[w], value[w]>>} ELSE answers
    /\ X' = [X EXCEPT ![w] = <<>>]
    /\ ts' = [ts EXCEPT ![w] = <<>>]
    /\ year' = [year EXCEPT ![w] = 0]
    /\ pop' = [pop EXCEPT ![w] = "pop0"]
    /\ I' = [I EXCEPT ![w] = NoI]
    /\ i' = [i EXCEPT ![w] = 0]
    /\ j' = [j EXCEPT ![w] = 0]
    /\ max_rabbits' = [max_rabbits EXCEPT ![w] = 0]
    /\ value' = [value EXCEPT ![w] = 0]
    /\ tmp' = [tmp EXCEPT ![w] = 0]
    /\ failed' = [failed EXCEPT ![w] = FALSE]
    /\ nkill' = [nkill EXCEPT ![w] = 0]
    /\ prefox' = [prefox EXCEPT ![w] = NoFox]
    /\ prerabbits' = [prerabbits EXCEPT ![w] = NoFox]
    /\ seen' = [seen EXCEPT ![w] = {}]
    /\ entry' = [entry EXCEPT ![w] = NoEntry]
    /\ UNCHANGED <<shared, pop0, log, memo, cfg, started>>

\* the steps of a running call of worker w
Fitness(w) ==
    \/ DecodeYear(w)
    \/ Seed(w)
    \/ Propagate(w)
    \/ Sample(w)
    \/ IncRead(w)
    \/ IncWrite(w)
    \/ Compare(w)
    \/ Store(w)
    \/ Log(w)
    \/ Return(w)

Next ==
    \/ \E w \in Workers : \E x \in cfg.inputs : Call(w, x)
    \/ \E w \in Workers : Fitness(w)

SpecDecode == InitDecode /\ [][Next]_vars
SpecSim == InitSim /\ [][Next]_vars
SpecConc == InitConc /\ [][Next]_vars
SpecDet == InitDet /\ [][Next]_vars
SpecScenario == InitScenario /\ [][Next]_vars
SpecWrap == InitWrap /\ [][Next]_vars

\* the steps of worker 1 are taken as long as it is scheduled; worker 2 may stop
\* anywhere
FairConc == InitFair /\ [][Next]_vars /\ WF_vars(Fitness(1))

\* ---- properties

AllIdle == \A w \in Workers : pc[w] = "idle"
Decoded(w) == pc[w] \notin {"idle", "decode"}
Scored(w) == pc[w] \in {"inc_read", "inc_write", "compare", "store", "log", "ret"}
Counted(w) == pc[w] \in {"compare", "store", "log", "ret"}

StrictlyIncreasing(q) == \A k \in 1..(Len(q) - 1) : q[k] < q[k + 1]

\* C1: the shared counter equals its initial value plus the number of calls that
\* have executed their increment, whatever the interleaving: none is lost or
\* doubled, and a call's increment is in the counter before the call returns.
C1_CounterExact ==
    evals = cfg.evals0 + done + Cardinality({w \in Workers : Counted(w)})

\* C2: the shared best value never increases from one moment to the next.
C2_BvalNeverIncreases == [][bval' <= bval]_vars

\* C3: when no call is running, bval is the minimum of the accepted values (those
\* below 1E99) returned so far, or its initial value when there is none.
C3_BvalIsMinimum ==
    AllIdle => bval = SetMin({v \in returned : v < Threshold} \cup {Threshold})

\* C4: for every X within the bounds, the schedule fitness builds is strictly
\* increasing and ends with dim.
C4_ScheduleStrict ==
    \A w \in Workers :
        Decoded(w) => /\ StrictlyIncreasing(ts[w])
                      /\ ts[w][Len(ts[w])] = Dim * Year

\* the indices (from 1) of the strictly positive entries of x, ascending
RECURSIVE Positive(_, _)
Positive(x, n) ==
    IF n = 0 THEN <<>>
    ELSE IF x[n] > 0 THEN Append(Positive(x, n - 1), n) ELSE Positive(x, n - 1)

EventTimes(x) ==
    LET idx == Positive(x, Len(x))
    IN  [n \in 1..Len(idx) |-> (idx[n] - 1) * Year + x[idx[n]]]

\* C5: the schedule is i + X[i] for exactly the indices with X[i] > 0, in index
\* order, followed by len(X): one entry more than there are positive entries, and
\* only [dim] when no entry is positive.
C5_ScheduleContents ==
    \A w \in Workers :
        Decoded(w) =>
            /\ ts[w] = EventTimes(X[w]) \o <<Len(X[w]) * Year>>
            /\ Len(ts[w]) = Cardinality({k \in 1..Len(X[w]) : X[w][k] > 0}) + 1
            /\ (\A k \in 1..Len(X[w]) : X[w][k] <= 0) => ts[w] = <<Dim * Year>>

C5_Witness ==
    \E w \in Workers :
        /\ pc[w] = "prop"
        /\ X[w][1] = 0
        /\ X[w][Dim] > 0
        /\ Len(ts[w]) = 2

\* C6: right after a transition the fox component, with which the integrator has
\* been reseeded, is at least 1, also when it was exactly 1 before.
C6_FoxAtLeastOne ==
    \A w \in Workers :
        (pc[w] = "prop" /\ i[w] >= 1) => /\ I[w].y[2] >= 1
                                         /\ Deref(w)[2] >= 1

C6_Witness ==
    \E w \in Workers :
        /\ pc[w] = "prop"
        /\ i[w] >= 1
        /\ prefox[w] = 1
        /\ I[w].y[2] = 1

\* C7: a call in which the integrator failed to converge returns the rejected
\* sentinel, which can never become bval.
C7_FailureRejected ==
    \A w \in Workers :
        (Scored(w) /\ failed[w]) => /\ value[w] >= Threshold
                                    /\ pc[w] \notin {"store", "log"}

\* C8: a vector whose schedule is not strictly increasing is rejected: no
\* propagation is made over it, the sentinel is returned and bval is left alone.
C8_InvalidRejected ==
    \A w \in Workers :
        (Decoded(w) /\ ~StrictlyIncreasing(ts[w])) =>
            /\ pc[w] = "prop" => i[w] = 0
            /\ pc[w] # "score"
            /\ Scored(w) => value[w] >= Threshold
            /\ pc[w] \notin {"store", "log"}

C10_CallReturns == (pc[1] # "idle") ~> (pc[1] = "idle")

C10_Witness ==
    /\ pc[1] = "ret"
    /\ pc[2] = "inc_write"

NumPositive(x) == Cardinality({k \in 1..Len(x) : x[k] > 0})

\* C12: in the event phase each schedule entry is first propagated to; each entry
\* but the last then gets exactly one transition, and the integrator is reseeded
\* with the state after it at that entry's time.  The transitions of a call are as
\* many as X has strictly positive entries, and none is applied after the last
\* entry or while scoring.
C12_Alternation ==
    \A w \in Workers :
        /\ pc[w] = "prop" =>
              /\ nkill[w] = i[w]
              /\ i[w] < Len(ts[w])
              /\ i[w] >= 1 => /\ I[w].t = ts[w][i[w]]
                              /\ I[w].y = <<prerabbits[w], Max(1, prefox[w] - 1)>>
        /\ (pc[w] = "score" \/ Scored(w)) =>
              /\ nkill[w] = NumPositive(X[w])
              /\ i[w] = Len(ts[w])
              /\ prefox[w] = NoFox

C12_Witness ==
    \E w \in Workers :
        /\ pc[w] = "score"
        /\ j[w] >= 1
        /\ nkill[w] = Len(X[w])
        /\ nkill[w] >= 2

\* C13: for every X within the bounds no transition is applied at the horizon end
\* dim: the time at which a transition has just been applied and the integrator
\* reseeded is never dim.
C13_NoKillAtHorizon ==
    \A w \in Workers :
        (pc[w] = "prop" /\ i[w] >= 1) => I[w].t # Len(X[w]) * Year

\* C14: a call run alone adds exactly one to evals whatever its value; it changes
\* bval exactly when its value is below the bval it found and below 1E99, and
\* then bval is that value; and it emits a record exactly when it changed bval.
C14_Bookkeeping ==
    \A w \in Workers :
        pc[w] = "ret" =>
            LET better == value[w] < entry[w].bval /\ value[w] < Threshold
            IN  /\ evals = entry[w].evals + 1
                /\ bval = (IF better THEN value[w] ELSE entry[w].bval)
                /\ (bval # entry[w].bval) <=> better
                /\ Len(log) = entry[w].records + (IF better THEN 1 ELSE 0)
                /\ better => /\ log[Len(log)].fval = value[w]
                             /\ log[Len(log)].nfev = evals

C14_Witness ==
    \E w \in Workers :
        /\ pc[w] = "ret"
        /\ value[w] = entry[w].bval
        /\ entry[w].records = 1
        /\ Len(log) = 1
        /\ evals = 2

\* C15: under concurrent calls every record is a consistent pair: its count is the
\* one its own call's increment stored, and its value is bval at the moment the
\* record is emitted.
C15_RecordsConsistent ==
    \A k \in 1..Len(log) : /\ log[k].nfev = log[k].own
                           /\ log[k].fval = log[k].best

SetMax(S) == -SetMin({-x : x \in S})

C17_FoxNeverIncreases ==
    \A w \in Workers :
        (pc[w] = "prop" /\ i[w] >= 1) => /\ I[w].y[2] <= prefox[w]
                                         /\ I[w].y[1] = prerabbits[w]

\* C17, amended: a transition does not increase a fox component that was at least
\* 1; one that was below 1 it raises to exactly 1; the rabbit component is
\* unchanged.
C17_FoxNotIncreasedFromOne ==
    \A w \in Workers :
        (pc[w] = "prop" /\ i[w] >= 1) =>
            /\ prefox[w] >= 1 => I[w].y[2] <= prefox[w]
            /\ prefox[w] < 1 => I[w].y[2] = 1
            /\ I[w].y[1] = prerabbits[w]

C17_Witness ==
    \E w \in Workers :
        /\ pc[w] = "prop"
        /\ i[w] >= 1
        /\ prefox[w] = 0
        /\ I[w].y = <<prerabbits[w], 1>>

\* C18: fitness leaves pop0 at [10, 5]: the fox update writes the integrator's
\* array, never pop0; the vector X of a running call stays the one it was
\* called with; and every call seeds its integrator with [10, 5] at time 0.
C18_ModuleValuesKept ==
    \A w \in Workers :
        /\ pop0[w] = <<10, 5>>
        /\ pc[w] # "idle" => X[w] \in cfg.inputs
        /\ (pc[w] = "prop" /\ i[w] = 0) => I[w] = [y |-> <<10, 5>>, t |-> 0]
        /\ (pc[w] = "prop" /\ i[w] >= 1) => pop[w] = "I._y"

C18_Witness ==
    \E w \in Workers :
        /\ done = 1
        /\ pc[w] = "prop"
        /\ i[w] >= 1
        /\ prefox[w] = 3
        /\ I[w].y[2] = 2
        /\ pop0[w] = <<10, 5>>

\* C19: evals never decreases: after every call of a sequential run, the one made
\* with the counter at 2^31 - 1 included, evals is greater than before the call.
C19_EvalsGrows ==
    \A w \in Workers : pc[w] = "ret" => evals > entry[w].evals

====
